---- MODULE Spec2Model ----
\* Model of pyspectre/core.py: one interactive Spectre session (Session
\* dataclass, run_command, run_all, run_analysis, stop_session) driven
\* against a simulator process that may reply, stay silent, close its stream
\* or die, together with the one-shot simulate path.
EXTENDS Integers, Sequences, FiniteSets, TLC

VARIABLES
    alive,      \* session.repl.isalive(): the simulator process has not exited
    rawFile,    \* state on disk of session.raw_file: "missing", "readable", "unreadable"
    offset,     \* session.offset
    pc,         \* "idle", or "wait" while stop_session blocks in repl.wait()
    remove_raw, \* argument of the stop_session call in progress
    stopped,    \* a stop_session call has returned
    last,       \* record of the most recent call: inputs, effects and outcome
    output,     \* what the simulator prints, before its prompt, on the next command
    stored,     \* the parameter values the simulator holds, as the text it was sent
    lastSet,    \* per parameter, the value of the latest set_parameter that returned True
    sessions,   \* two further Session objects, each with its own process and result file
    session,    \* the path and pattern attributes of the Session object
    pty         \* the pseudo-terminal: commands sent, replies unread, replies still to come

vars ==
    <<alive, rawFile, offset, pc, remove_raw, stopped, last, output, stored, lastSet, sessions,
      session, pty>>

\* ---------------------------------------------------------------- bounds
MaxCmdLen == 2
MaxOffset == 2

\* ---------------------------------------------------------------- data
\* A command text is a sequence of tokens; "(" and ")" are the parentheses.
CmdAlphabet == {"(", ")", "sclX"}

Commands == UNION {[1..n -> CmdAlphabet] : n \in 0..MaxCmdLen}

\* Analysis names a caller may pass; a name is text too and may hold a parenthesis.
AnalysisNames == {<<"tran1">>, <<"ac", "(">>}

DatasetNames == {"dc", "tran"}

FileStates == {"missing", "readable", "unreadable"}

\* What the process does with one exchange: the prompt arrives, the stream
\* closes, nothing arrives within the spawn timeout, or the write itself fails.
IoEvents == {"prompt", "eof", "timeout", "senderr"}

\* str.count(c)
RECURSIVE count(_, _)
count(command, c) ==
    IF command = <<>> THEN 0
    ELSE (IF Head(command) = c THEN 1 ELSE 0) + count(Tail(command), c)

RunAllCmd == <<"(", "sclRun", "\"all\"", ")">>

RunAnalysisCmd(analysis) ==
    <<"(", "sclRunAnalysis", "(", "sclGetAnalysis", "\"">> \o analysis \o <<"\"", ")", ")">>

QuitCmd == <<"(", "sclQuit", ")">>

\* ---------------------------------------------------------------- pexpect
\* spawn.sendline: writes the line, or raises
sendline(io) == IF io = "senderr" THEN "ExceptionPexpect" ELSE "none"

\* spawn.expect(pattern) with one pattern: index 0 on a match; EOF and TIMEOUT
\* are not in the pattern list and are raised.
expect(io) ==
    CASE io = "prompt"  -> [raised |-> "none", index |-> 0]
      [] io = "eof"     -> [raised |-> "EOF", index |-> -1]
      [] io = "timeout" -> [raised |-> "TIMEOUT", index |-> -1]
      [] OTHER          -> [raised |-> "none", index |-> 0]

\* except pexpect.exceptions.ExceptionPexpect
IsExceptionPexpect(e) == e \in {"ExceptionPexpect", "EOF", "TIMEOUT"}

\* ---------------------------------------------------------------- call records
NoData == [k \in {} |-> 0]

Blank ==
    [op |-> "none", command |-> <<>>, io |-> "none",
     aliveAtEntry |-> TRUE, closedAtEntry |-> FALSE,
     rawAtEntry |-> "missing", rawAfter |-> "missing",
     offsetAtEntry |-> 0, offsetAfter |-> 0,
     aliveQueried |-> FALSE, sent |-> <<>>, expects |-> 0, warned |-> "none",
     removed |-> FALSE, killed |-> FALSE,
     dispatch |-> "none",
     read |-> FALSE, readOffset |-> 0, decoded |-> NoData,
     outcome |-> "none", ret |-> "none", data |-> NoData,
     exc |-> "none", msg |-> "none", msgCommand |-> <<>>, cause |-> "none",
     fifo |-> FALSE, printed |-> FALSE,
     tmpRaw |-> FALSE, drain |-> FALSE, spawned |-> FALSE,
     offered |-> <<>>, before |-> <<>>, result |-> <<>>, param |-> "none", value |-> 0,
     net |-> "none", log_path |-> FALSE, returncode |-> 0,
     sentId |-> 0, matchedId |-> 0,
     params |-> <<>>, done |-> 0, remove |-> FALSE]

\* os.path.isfile(session.raw_file)
isfile(f) == f # "missing"

\* ---------------------------------------------------------------- run_command
\* What a run_command call has done and how it ended, before any of it happened.
NoEffect(raw) ==
    [sent |-> <<>>, expects |-> 0, warned |-> "none", aliveQueried |-> FALSE,
     removed |-> FALSE, rawAfter |-> raw, outcome |-> "raise", ret |-> "none",
     exc |-> "RuntimeError", msg |-> "none", msgCommand |-> <<>>, cause |-> "none"]

\* the try block without its except clause
exchange_leak(r, command, io) ==
    LET s  == sendline(io)
        e  == expect(io)
        r1 == [r EXCEPT !.sent = <<command>>]
    IN IF s # "none" THEN [r1 EXCEPT !.exc = s]
       ELSE IF e.raised # "none" THEN [r1 EXCEPT !.expects = 1, !.exc = e.raised]
       ELSE [r1 EXCEPT !.expects = 1, !.outcome = "return", !.ret = "True", !.exc = "none"]

\* the try block with a wait that has no timeout
exchange_waits_forever(r, command, io) ==
    IF io = "timeout"
    THEN [r EXCEPT !.sent = <<command>>, !.expects = 1, !.outcome = "blocked", !.exc = "none"]
    ELSE exchange_leak(r, command, io)

\* the try block sending the command again when the first wait fails
exchange_retries(r, command, io) ==
    IF expect(io).raised # "none"
    THEN [r EXCEPT !.sent = <<command, command>>, !.expects = 2,
                   !.msg = "An error occurred while executing command",
                   !.msgCommand = command, !.cause = expect(io).raised]
    ELSE exchange_leak(r, command, io)

\* The try block of run_command: sendline, expect, the warning and the return,
\* and the except clause that re-raises pexpect's exceptions.
exchange(r, command, io) ==
    LET s  == sendline(io)
        e  == expect(io)
        r1 == [r EXCEPT !.sent = <<command>>]
    IN IF s # "none"
       THEN IF IsExceptionPexpect(s)
            THEN [r1 EXCEPT !.msg = "An error occurred while executing command",
                            !.msgCommand = command, !.cause = s]
            ELSE [r1 EXCEPT !.exc = s]
       ELSE IF e.raised # "none"
       THEN IF IsExceptionPexpect(e.raised)
            THEN [r1 EXCEPT !.expects = 1,
                            !.msg = "An error occurred while executing command",
                            !.msgCommand = command, !.cause = e.raised]
            ELSE [r1 EXCEPT !.expects = 1, !.exc = e.raised]
       ELSE [r1 EXCEPT !.expects = 1,
                       !.warned = IF e.index # 0 THEN "Spectre might have crashed"
                                  ELSE "none",
                       !.outcome = "return",
                       !.ret = IF e.index = 0 THEN "True" ELSE "False",
                       !.exc = "none"]

\* the else branch without the cleanup of the result file
dead_session_keeps_file(r, raw) ==
    [r EXCEPT !.msg = "The Spectre session is no longer active"]

\* The else branch of run_command: the process is gone.
dead_session(r, raw) ==
    [r EXCEPT !.removed = isfile(raw),
              !.rawAfter = IF isfile(raw) THEN "missing" ELSE raw,
              !.msg = "The Spectre session is no longer active"]

\* run_command without the liveness test
run_command_unchecked(isalive, raw, command, io) ==
    IF ~(count(command, "(") = count(command, ")"))
    THEN [NoEffect(raw) EXCEPT !.msg = "Syntax Error. Check Brackets in command",
                               !.msgCommand = command]
    ELSE exchange([NoEffect(raw) EXCEPT !.aliveQueried = TRUE], command, io)

\* The outcome and effects of run_command(session, command) when isalive()
\* answers isalive, the result file is in state raw and the process answers
\* the exchange with io.
run_command(isalive, raw, command, io) ==
    IF ~(count(command, "(") = count(command, ")"))
    THEN [NoEffect(raw) EXCEPT !.msg = "Syntax Error. Check Brackets in command",
                               !.msgCommand = command]
    ELSE IF isalive
    THEN exchange([NoEffect(raw) EXCEPT !.aliveQueried = TRUE], command, io)
    ELSE dead_session([NoEffect(raw) EXCEPT !.aliveQueried = TRUE], raw)

\* The fields of a call record that a dispatch fills in.
Dispatched(rec, command, io, d) ==
    [rec EXCEPT !.command = command, !.io = IF d.sent = <<>> THEN "none" ELSE io,
                !.aliveQueried = d.aliveQueried, !.sent = d.sent, !.expects = d.expects,
                !.warned = d.warned, !.removed = d.removed, !.rawAfter = d.rawAfter,
                !.dispatch = IF d.outcome = "raise" THEN "raise" ELSE d.ret,
                !.outcome = d.outcome, !.ret = d.ret, !.exc = d.exc, !.msg = d.msg,
                !.msgCommand = d.msgCommand, !.cause = d.cause]

\* The record of a call entered in the current state.
Entry(op) ==
    [Blank EXCEPT !.op = op, !.aliveAtEntry = alive, !.closedAtEntry = stopped,
                  !.rawAtEntry = rawFile, !.rawAfter = rawFile,
                  !.offsetAtEntry = offset, !.offsetAfter = offset,
                  !.offered = output]

\* ---------------------------------------------------------------- result reader
\* A mapping as the result decoder returns it: the datasets in D, and the
\* entry 'offset' -> off when hasOffset.
Mapping(D, hasOffset, off) ==
    [k \in D \cup (IF hasOffset THEN {"offset"} ELSE {}) |->
        IF k = "offset" THEN off ELSE "DataFrame"]

\* The mappings plot_dict(read_raw(raw_file, off_set=start)) may return: any
\* datasets, and an end position at or after start, or none.
DecoderResults(start) ==
    {Mapping(D, h, o) : D \in SUBSET DatasetNames, h \in BOOLEAN, o \in start..MaxOffset}

\* dict.get(key, default)
get(res, key, default) == IF key \in DOMAIN res THEN res[key] ELSE default

\* a strip that keeps the sentinel entry
strip_nothing(res) == res

\* {n: p for n, p in res.items() if n != 'offset'}
strip(res) == [n \in DOMAIN res \ {"offset"} |-> res[n]]

\* read_results without its isfile and access checks
read_results_unchecked(raw, off, res) == [exc |-> "none", res |-> res]

\* read_results(raw_file, offset), the decoder answering res
read_results(raw, off, res) ==
    IF ~isfile(raw) THEN [exc |-> "FileNotFoundError", res |-> NoData]
    ELSE IF raw = "unreadable" THEN [exc |-> "PermissionError", res |-> NoData]
    ELSE [exc |-> "none", res |-> res]

\* A call that ends in the resource error of read_results.
ReadFailed(c, exc) ==
    [c EXCEPT !.outcome = "raise", !.ret = "none", !.exc = exc, !.msg = "none",
              !.msgCommand = <<>>, !.cause = "none"]

\* run_all going on to read the results after a dispatch that raised
run_all_reads_after_failure(c, isalive, raw, off, io, res) ==
    LET d  == run_command(isalive, raw, RunAllCmd, io)
        c1 == Dispatched(c, RunAllCmd, io, d)
        rr == read_results(d.rawAfter, off, res)
    IN IF rr.exc # "none" THEN ReadFailed(c1, rr.exc)
       ELSE [c1 EXCEPT !.read = TRUE, !.readOffset = off, !.decoded = rr.res,
                       !.offsetAfter = get(rr.res, "offset", 0),
                       !.outcome = "return", !.ret = "none", !.data = strip(rr.res)]

\* run_all(session): c is the call's record at entry, res the decoder's answer.
run_all(c, isalive, raw, off, io, res) ==
    LET d  == run_command(isalive, raw, RunAllCmd, io)
        c1 == Dispatched(c, RunAllCmd, io, d)
        rr == read_results(d.rawAfter, off, res)
    IN IF d.outcome = "raise" THEN c1
       ELSE IF rr.exc # "none" THEN ReadFailed(c1, rr.exc)
       ELSE [c1 EXCEPT !.read = TRUE, !.readOffset = off, !.decoded = rr.res,
                       !.offsetAfter = get(rr.res, "offset", 0),
                       !.outcome = "return", !.ret = "none", !.data = strip(rr.res)]

\* run_analysis(session, analysis)
\* run_analysis reading at the session offset, as run_all does
run_analysis_from_offset(c, isalive, raw, off, analysis, io, res) ==
    LET d  == run_command(isalive, raw, RunAnalysisCmd(analysis), io)
        c1 == Dispatched(c, RunAnalysisCmd(analysis), io, d)
        rr == read_results(d.rawAfter, off, res)
    IN IF d.outcome = "raise" THEN c1
       ELSE IF rr.exc # "none" THEN ReadFailed(c1, rr.exc)
       ELSE [c1 EXCEPT !.read = TRUE, !.readOffset = off, !.decoded = rr.res,
                       !.outcome = "return", !.ret = "none", !.data = rr.res]

run_analysis(c, isalive, raw, off, analysis, io, res) ==
    LET d  == run_command(isalive, raw, RunAnalysisCmd(analysis), io)
        c1 == Dispatched(c, RunAnalysisCmd(analysis), io, d)
        rr == read_results(d.rawAfter, 0, res)
    IN IF d.outcome = "raise" THEN c1
       ELSE IF rr.exc # "none" THEN ReadFailed(c1, rr.exc)
       ELSE [c1 EXCEPT !.read = TRUE, !.readOffset = 0, !.decoded = rr.res,
                       !.outcome = "return", !.ret = "none", !.data = rr.res]

\* ---------------------------------------------------------------- simulate
\* subprocess.run(cmd, check=True, ...).returncode
run(check, returncode) ==
    IF check /\ returncode # 0 THEN [raised |-> "CalledProcessError", returncode |-> returncode]
    ELSE [raised |-> "none", returncode |-> returncode]

\* simulate(netlist_path, raw_path=..., log_path=..., log_silent=...): net and
\* raw are the states of the netlist and of the result file after the run.
simulate(c, log_path, log_silent, net, returncode, raw, res) ==
    LET c1 == [c EXCEPT !.fifo = (~log_path /\ log_silent), !.rawAfter = raw,
                        !.net = net, !.log_path = log_path, !.returncode = returncode]
        p  == run(TRUE, returncode)
        rr == read_results(raw, 0, res)
    IN IF ~isfile(net) THEN ReadFailed(c1, "FileNotFoundError")
       ELSE IF net = "unreadable" THEN ReadFailed(c1, "PermissionError")
       ELSE IF p.raised # "none" THEN ReadFailed(c1, p.raised)
       ELSE IF p.returncode # 0 /\ ~log_path THEN ReadFailed(c1, "IOError")
       ELSE LET c2 == [c1 EXCEPT !.printed = (p.returncode # 0 /\ log_path)]
            IN IF rr.exc # "none" THEN ReadFailed(c2, rr.exc)
               ELSE [c2 EXCEPT !.read = TRUE, !.readOffset = 0, !.decoded = rr.res,
                               !.outcome = "return", !.data = strip(rr.res)]

\* ---------------------------------------------------------------- transcripts
\* session.repl.before, decoded and split at '\n', is a sequence of lines; a
\* line is a sequence of items: a parenthesised group ("name" "value") whose
\* value may be empty or unquoted, a lone quoted string, or plain text.
Group(n, v, q) == [kind |-> "group", name |-> n, value |-> v, quoted |-> q]

QuotedString(t) == [kind |-> "string", name |-> t, value |-> "", quoted |-> TRUE]

Text(t) == [kind |-> "text", name |-> t, value |-> "", quoted |-> FALSE]

Groups == {Group("value", "3.3", TRUE), Group("tolerance", "", TRUE), Group("w", "1u", FALSE)}

Items == Groups \cup {QuotedString("net1"), Text("3.3")}

Lines == {<<>>} \cup {<<i>> : i \in Items}
                \cup {<<Group("value", "3.3", TRUE), Group("tolerance", "", TRUE)>>}

MaxLines == 3

Transcripts == UNION {[1..n -> Lines] : n \in 1..MaxLines}

\* ''.split('\n'): one empty line
EmptyTranscript == <<<<>>>>

\* lines[k:]
drop(lines, k) == SubSeq(lines, k + 1, Len(lines))

\* ' '.join(lines)
RECURSIVE join(_)
join(lines) == IF lines = <<>> THEN <<>> ELSE Head(lines) \o join(Tail(lines))

\* An element of a returned list: a (name, value) tuple or a bare string.
Pair(n, v) == [n |-> n, v |-> v, tuple |-> TRUE]

Name(n) == [n |-> n, v |-> "", tuple |-> FALSE]

\* the attribute pattern requiring a non-empty quoted value
match_nonempty(pattern, i) ==
    IF i.kind = "group" /\ i.quoted /\ i.value # "" THEN <<Pair(i.name, i.value)>> ELSE <<>>

\* What one item contributes to re.findall under each of the four patterns:
\*   pairs       \("([^"]+)"\s+"([^"]+)"\)
\*   names       \("([^"]+)"\s+".*?"\)
\*   attributes  \("([^"]+)"\s+"?([^"\)]*)"?\)
\*   strings     "(.*?)"
match(pattern, i) ==
    CASE pattern = "pairs" ->
           IF i.kind = "group" /\ i.quoted /\ i.value # ""
           THEN <<Pair(i.name, i.value)>> ELSE <<>>
      [] pattern = "names" ->
           IF i.kind = "group" /\ i.quoted THEN <<Name(i.name)>> ELSE <<>>
      [] pattern = "attributes" ->
           IF i.kind = "group" THEN <<Pair(i.name, i.value)>> ELSE <<>>
      [] OTHER ->
           IF i.kind = "string" THEN <<Name(i.name)>>
           ELSE IF i.kind = "group" /\ i.quoted THEN <<Name(i.name), Name(i.value)>>
           ELSE IF i.kind = "group" THEN <<Name(i.name)>>
           ELSE <<>>

\* re.findall(pattern, text)
RECURSIVE findall(_, _)
findall(pattern, items) ==
    IF items = <<>> THEN <<>>
    ELSE match(pattern, Head(items)) \o findall(pattern, Tail(items))

\* float(text), in tenths
FloatOf == [t \in {"0.5", "1.0", "3.3"} |->
               CASE t = "0.5" -> 5 [] t = "1.0" -> 10 [] OTHER -> 33]

float(line) ==
    IF Len(line) = 1 /\ line[1].kind = "text" /\ line[1].name \in DOMAIN FloatOf
    THEN [exc |-> "none", value |-> FloatOf[line[1].name]]
    ELSE [exc |-> "ValueError", value |-> 0]

\* ---------------------------------------------------------------- accessors
ListingAccessors ==
    {"list_analyses", "list_analysis_types", "list_instances", "list_nets",
     "list_circuit_parameters", "list_analysis_parameters", "get_analysis_parameter",
     "get_circuit_parameter", "list_instance_parameters", "get_instance_parameter"}

\* Names of analyses, instances and their parameters that a caller passes.
ArgNames == {<<"p1">>}

\* Names of netlist parameters.
ParamNames == {"vdd", "ib"}

\* The command text each accessor builds from its arguments.
ListCmd(acc, a, b) ==
    CASE acc = "list_analyses" -> <<"(", "sclListAnalysis", ")">>
      [] acc = "list_analysis_types" ->
           <<"(", "sclHelp", "(", "sclGetAnalysis", "\"ac\"", ")">>
      [] acc = "list_instances" -> <<"(", "sclListInstance", ")">>
      [] acc = "list_nets" -> <<"(", "sclListNet", ")">>
      [] acc = "list_circuit_parameters" ->
           <<"(", "sclListParameter", "(", "sclGetCircuit", "\"\"", ")", ")">>
      [] acc = "list_analysis_parameters" ->
           <<"(", "sclListParameter", "(", "sclGetAnalysis", "\"">> \o a
               \o <<"\"", ")", ")">>
      [] acc = "get_analysis_parameter" ->
           <<"(", "sclListAttribute", "(", "sclGetParameter", "(", "sclGetAnalysis", "\"">>
               \o a \o <<"\"", ")", "\"">> \o b \o <<"\"", ")", ")">>
      [] acc = "get_circuit_parameter" ->
           <<"(", "sclListAttribute", "(", "sclGetParameter", "(", "sclGetCircuit", "\"\"",
             ")", "\"">> \o a \o <<"\"", ")", ")">>
      [] acc = "list_instance_parameters" ->
           <<"(", "sclListParameter", "(", "sclGetInstance", "\"">> \o a
               \o <<"\"", ")", ")">>
      [] OTHER ->
           <<"(", "sclListAttribute", "(", "sclGetParameter", "(", "sclGetInstance", "\"">>
               \o a \o <<"\"", ")", "\"">> \o b \o <<"\"", ")", ")">>

\* The number of leading lines each accessor leaves out: split('\n')[k:]
Skip(acc) ==
    CASE acc = "list_nets" -> 0
      [] acc = "list_analysis_parameters" -> 2
      [] OTHER -> 1

\* The pattern each accessor hands to re.findall.
Pattern(acc) ==
    CASE acc \in {"list_analyses", "list_analysis_types", "list_instances"} -> "pairs"
      [] acc = "list_nets" -> "strings"
      [] acc \in {"list_circuit_parameters", "list_analysis_parameters",
                  "list_instance_parameters"} -> "names"
      [] OTHER -> "attributes"

\* A listing accessor: dispatch its command, then decode the transcript out
\* that the process printed before the prompt.
listing(c, acc, a, b, isalive, raw, io, out) ==
    LET d  == run_command(isalive, raw, ListCmd(acc, a, b), io)
        c1 == Dispatched(c, ListCmd(acc, a, b), io, d)
    IN IF d.outcome = "raise" THEN c1
       ELSE [c1 EXCEPT !.before = out, !.outcome = "return", !.ret = "none",
                       !.result = findall(Pattern(acc), join(drop(out, Skip(acc))))]

GetParameterCmd(param) ==
    <<"(", "sclGetAttribute", "(", "sclGetParameter", "(", "sclGetCircuit", "\"\"", ")",
      "\"", param, "\"", ")", "\"value\"", ")">>

\* get_parameter taking the first line of the transcript
get_parameter_first_line(c, param, isalive, raw, io, out) ==
    LET d  == run_command(isalive, raw, GetParameterCmd(param), io)
        c1 == [Dispatched(c, GetParameterCmd(param), io, d) EXCEPT !.param = param]
        f  == float(out[1])
    IN IF d.outcome = "raise" THEN c1
       ELSE IF f.exc # "none" THEN ReadFailed([c1 EXCEPT !.before = out], f.exc)
       ELSE [c1 EXCEPT !.before = out, !.outcome = "return", !.ret = "none",
                       !.value = f.value]

\* get_parameter(session, param): float(before.split('\n')[-1])
get_parameter(c, param, isalive, raw, io, out) ==
    LET d  == run_command(isalive, raw, GetParameterCmd(param), io)
        c1 == [Dispatched(c, GetParameterCmd(param), io, d) EXCEPT !.param = param]
        f  == float(out[Len(out)])
    IN IF d.outcome = "raise" THEN c1
       ELSE IF f.exc # "none" THEN ReadFailed([c1 EXCEPT !.before = out], f.exc)
       ELSE [c1 EXCEPT !.before = out, !.outcome = "return", !.ret = "none",
                       !.value = f.value]

\* ---------------------------------------------------------------- set_parameter
\* Parameter values, in tenths.
Values == {5, 10, 33}

\* f'{value}'
Repr == [v \in Values |-> CASE v = 5 -> "0.5" [] v = 10 -> "1.0" [] OTHER -> "3.3"]

SetParameterCmd(param, value) ==
    <<"(", "sclSetAttribute", "(", "sclGetParameter", "(", "sclGetCircuit", "\"\"", ")",
      "\"", param, "\"", ")", "\"value\"", Repr[value], ")">>

\* set_parameter(session, param, value)
set_parameter(c, param, value, isalive, raw, io) ==
    LET d == run_command(isalive, raw, SetParameterCmd(param, value), io)
    IN [Dispatched(c, SetParameterCmd(param, value), io, d) EXCEPT !.param = param]

\* The process of the round-trip law: it stores the value text of each set
\* command it answers with the prompt, and on a get prints the echoed command
\* and then the text stored under the name.
StubStore(st, c) ==
    IF c.sent # <<>> /\ c.io = "prompt"
    THEN [st EXCEPT ![c.sent[1][Len(c.sent[1]) - 5]] = c.sent[1][Len(c.sent[1]) - 1]]
    ELSE st

StubReply(st, param) == <<<<Text("echo")>>, <<Text(st[param])>>>>

\* ---------------------------------------------------------------- set_parameters
\* params.items(): the mappings a caller passes, in their order, as (name,
\* value) pairs.
Mappings ==
    {<<>>} \cup {<<<<p, v>>>> : p \in ParamNames, v \in Values}
           \cup {m \in {<<<<p, v>>, <<q, w>>>> : p \in ParamNames, q \in ParamNames,
                                                v \in Values, w \in Values} :
                     m[1][1] # m[2][1]}

\* What happens at one dispatch of a set_parameters call: the process answers
\* as in IoEvents, or has exited by the time the dispatch starts.
SetEvents == IoEvents \cup {"exited"}

\* The answers a call with n items consumes: the dispatches before the m-th
\* return True, the m-th is answered with a, and what follows a dispatch that
\* did not return True is never asked for.
AnswerRuns(n) ==
    IF n = 0 THEN {<<>>}
    ELSE {[k \in 1..n |-> IF k = m THEN a ELSE "prompt"] : m \in 1..n, a \in SetEvents}

\* all(...) evaluating every element, whatever the earlier ones returned
RECURSIVE all_eager(_, _, _, _)
all_eager(c, params, answers, k) ==
    IF k > Len(params) THEN [c EXCEPT !.outcome = "return", !.ret = "True"]
    ELSE LET cmd == SetParameterCmd(params[k][1], params[k][2])
             d   == run_command(c.aliveAtEntry /\ answers[k] # "exited", c.rawAfter, cmd,
                                answers[k])
             c1  == [Dispatched(c, cmd, answers[k], d) EXCEPT
                        !.sent = c.sent \o d.sent, !.expects = c.expects + d.expects,
                        !.done = c.done + (IF d.outcome = "return" THEN 1 ELSE 0)]
         IN all_eager(c1, params, answers, k + 1)

\* all(set_parameter(session, p, v) for p, v in params.items()) from the k-th
\* item on: an exception ends the call, a False ends it with False, and when
\* the items run out the result is True.
RECURSIVE all(_, _, _, _)
all(c, params, answers, k) ==
    IF k > Len(params) THEN [c EXCEPT !.outcome = "return", !.ret = "True"]
    ELSE LET cmd == SetParameterCmd(params[k][1], params[k][2])
             d   == run_command(c.aliveAtEntry /\ answers[k] # "exited", c.rawAfter, cmd,
                                answers[k])
             c1  == [Dispatched(c, cmd, answers[k], d) EXCEPT
                        !.sent = c.sent \o d.sent, !.expects = c.expects + d.expects,
                        !.done = c.done + (IF d.outcome = "return" /\ d.ret = "True"
                                           THEN 1 ELSE 0)]
         IN IF d.outcome = "raise" THEN c1
            ELSE IF d.ret # "True" THEN [c1 EXCEPT !.ret = "False"]
            ELSE all(c1, params, answers, k + 1)

\* set_parameters(session, params)
set_parameters(c, params, answers) ==
    all([c EXCEPT !.params = params, !.outcome = "return", !.ret = "True"], params, answers, 1)

\* The simulator's store after the first n commands of sent were answered.
RECURSIVE StubStoreAll(_, _, _)
StubStoreAll(st, sent, n) ==
    IF n = 0 THEN st
    ELSE LET cmd == sent[n]
         IN [StubStoreAll(st, sent, n - 1) EXCEPT ![cmd[Len(cmd) - 5]] = cmd[Len(cmd) - 1]]

\* The latest values set with success after the first n items of params were.
RECURSIVE SetAll(_, _, _)
SetAll(ls, params, n) ==
    IF n = 0 THEN ls
    ELSE [SetAll(ls, params, n - 1) EXCEPT ![params[n][1]] =
             [set |-> TRUE, value |-> params[n][2]]]

\* ---------------------------------------------------------------- start_session
\* What the spawned command does before the first prompt: it prints the prompt,
\* closes its stream, stays silent, or cannot be spawned at all.
HandshakeEvents == {"prompt", "eof", "timeout", "nospawn"}

\* start_session(net_path, raw_path=...): net is the state of the netlist file.
start_session(c, raw_path, net, io) ==
    LET c1 == [c EXCEPT !.tmpRaw = ~raw_path, !.fifo = TRUE, !.drain = TRUE, !.net = net]
        c2 == [c1 EXCEPT !.spawned = TRUE, !.io = io, !.expects = 1]
        e  == expect(io)
    IN IF ~isfile(net) THEN ReadFailed(c1, "FileNotFoundError")
       ELSE IF net = "unreadable" THEN ReadFailed(c1, "PermissionError")
       ELSE IF io = "nospawn" THEN ReadFailed([c1 EXCEPT !.io = io], "ExceptionPexpect")
       ELSE IF e.raised # "none" THEN ReadFailed(c2, e.raised)
       ELSE IF e.index # 0 THEN ReadFailed(c2, "IOError")
       ELSE [c2 EXCEPT !.outcome = "return", !.ret = "Session", !.offsetAfter = 0]

\* ---------------------------------------------------------------- stop_session
\* stop_session up to repl.wait(): the quit command is sent to a live process.
stop_session_send(c) ==
    [c EXCEPT !.command = QuitCmd, !.aliveQueried = TRUE, !.sent = <<QuitCmd>>,
              !.outcome = "blocked"]

\* stop_session sending the quit command without asking whether the process
\* is alive
stop_session_always_quits(c, isalive, raw, remove) ==
    [c EXCEPT !.aliveQueried = TRUE,
              !.sent = <<QuitCmd>>,
              !.removed = (remove /\ isfile(raw)),
              !.rawAfter = IF remove /\ isfile(raw) THEN "missing" ELSE raw,
              !.remove = remove,
              !.outcome = "return", !.ret = "True"]

\* stop_session from the return of repl.wait() (or from the first liveness
\* test when the process was already gone) to its own return.
stop_session_finish(c, isalive, raw, remove) ==
    [c EXCEPT !.aliveQueried = TRUE, !.remove = remove,
              !.warned = IF isalive THEN "spectre refused to exit gracefully, forcing ..."
                         ELSE c.warned,
              !.killed = isalive,
              !.removed = (remove /\ isfile(raw)),
              !.rawAfter = IF remove /\ isfile(raw) THEN "missing" ELSE raw,
              !.outcome = "return", !.ret = "True"]

\* ---------------------------------------------------------------- Session
\* The attributes of the Session object besides offset, as start_session sets
\* them; repl is the handle pexpect.spawn returned.
SessionFields ==
    [net_file |-> "net.scs", raw_file |-> "net.raw", repl |-> "spawn",
     prompt |-> "\\r\\n>\\s",
     succ |-> ".*\\nt", fail |-> ".*\\nnil"]

\* an operation that clears raw_file once it has deleted the file
Assigned_on_stop(op) == IF op = "stop_session" THEN {"offset", "raw_file"} ELSE {}

\* The attributes of session that the code of an operation assigns: the one
\* assignment is session.offset = ... in run_all.
Assigned(op) == IF op = "run_all" THEN {"offset"} ELSE {}

\* The path and pattern attributes after an operation.
Kept(sess, op) == [f \in DOMAIN sess |-> IF f \in Assigned(op) THEN "reassigned" ELSE sess[f]]

\* ---------------------------------------------------------------- pseudo-terminal
MaxSends == 4

\* Nothing sent, nothing to read, nothing on its way.
QuietPty == [sends |-> 0, unread |-> <<>>, late |-> <<>>]

\* How the simulator answers one command: output and prompt within the spawn
\* timeout, output and prompt after it, or within it and a second prompt.
ReplyModes == {"prompt", "late", "twice"}

\* The replies, tagged with the command they answer, that reach the
\* pseudo-terminal before the wait for command id ends.
arriving(mode, id) ==
    CASE mode = "late"  -> <<>>
      [] mode = "twice" -> <<id, id>>
      [] OTHER          -> <<id>>

\* What expect(prompt) finds: the first prompt in the bytes not yet read,
\* whichever command they answer, and a timeout when there is none.
found(unread) == IF unread = <<>> THEN "timeout" ELSE "prompt"

\* run_command on a live session over the pseudo-terminal t, for the command
\* with number id and the simulator answering in mode.
over_pty(c, t, command, mode) ==
    LET id  == t.sends + 1
        buf == t.unread \o arriving(mode, id)
        d   == run_command(TRUE, c.rawAtEntry, command, found(buf))
        c1  == [Dispatched(c, command, found(buf), d) EXCEPT !.sentId = id]
    IN IF d.outcome = "return" THEN [c1 EXCEPT !.matchedId = Head(buf)] ELSE c1

\* The pseudo-terminal after that call.
pty_after(t, mode) ==
    LET id  == t.sends + 1
        buf == t.unread \o arriving(mode, id)
    IN [sends  |-> id,
        unread |-> IF buf = <<>> THEN buf ELSE Tail(buf),
        late   |-> IF mode = "late" THEN Append(t.late, id) ELSE t.late]

\* ---------------------------------------------------------------- two sessions
SessionIds == {1, 2}

\* What the operations read and write of one Session object: its process
\* (repl), the file at raw_file, offset, and the stop_session call blocked in
\* wait() with its remove_raw argument.
FreshSession ==
    [alive |-> TRUE, rawFile |-> "readable", offset |-> 0, pc |-> "idle", remove_raw |-> FALSE]

\* The commands dispatched in the two-session runs: one balanced, one not.
SessionCommands == {<<"(", "sclX", ")">>, <<"(">>}

\* The decoder's answers as far as a session's state depends on them.
OffsetResults(start) == {Mapping({}, h, o) : h \in BOOLEAN, o \in start..MaxOffset}

\* The session object after run_command(session, command).
after_run_command(s, command, io, dies) ==
    [s EXCEPT !.rawFile = run_command(s.alive, s.rawFile, command, io).rawAfter,
              !.alive = (s.alive /\ ~dies)]

\* The session object after run_all(session).
after_run_all(s, io, res, dies) ==
    LET c == run_all(Blank, s.alive, s.rawFile, s.offset, io, res)
    IN [s EXCEPT !.rawFile = c.rawAfter, !.alive = (s.alive /\ ~dies),
                 !.offset = IF c.outcome = "return" THEN c.offsetAfter ELSE s.offset]

\* The session object after run_analysis(session, analysis).
after_run_analysis(s, analysis, io, res, dies) ==
    LET c == run_analysis(Blank, s.alive, s.rawFile, s.offset, analysis, io, res)
    IN [s EXCEPT !.rawFile = c.rawAfter, !.alive = (s.alive /\ ~dies)]

\* The session object once stop_session(session, remove_raw) has returned.
after_stop_session(s, remove) ==
    [s EXCEPT !.rawFile = stop_session_finish(Blank, FALSE, s.rawFile, remove).rawAfter,
              !.pc = "idle"]

\* An operation whose state lives in the module, not in the Session object
\* it is handed.
in_module(objs, i, s) == [j \in DOMAIN objs |-> [s EXCEPT !.pc = objs[j].pc]]

\* An operation on the Session object objs[i] leaving it as s: the objects
\* share nothing, so the others stay as they are.
in_session(objs, i, s) == [objs EXCEPT ![i] = s]

\* The state of both sessions, and for each what it would be had its own
\* operations run with no other session around.
Operated(i, s, alone) ==
    [real |-> in_session(sessions.real, i, s), solo |-> [sessions.solo EXCEPT ![i] = alone]]

\* ---------------------------------------------------------------- actions
TwoSessions ==
    [real |-> [i \in SessionIds |-> FreshSession], solo |-> [i \in SessionIds |-> FreshSession]]

NothingStored == [p \in ParamNames |-> "unset"]

NothingSet == [p \in ParamNames |-> [set |-> FALSE, value |-> 0]]

\* The output still pending after a call: an exchange reads what was printed.
AfterExchange(c, out) == IF c.sent = <<>> THEN out ELSE EmptyTranscript

Init ==
    /\ alive = TRUE
    /\ rawFile \in FileStates
    /\ offset = 0
    /\ pc = "idle"
    /\ remove_raw = FALSE
    /\ stopped = FALSE
    /\ last = Blank
    /\ output = EmptyTranscript
    /\ stored = NothingStored
    /\ lastSet = NothingSet
    /\ sessions = TwoSessions
    /\ session = SessionFields
    /\ pty = QuietPty

\* Whether the process is still running after an exchange that ended in io: a
\* closed stream may or may not mean that the process has exited.
Deaths(io) == IF io = "eof" THEN BOOLEAN ELSE {FALSE}

\* The answers of the process that a call consumes: none when the call, tried
\* with any answer, sends nothing.
Answers(probe) == IF probe.sent = <<>> THEN {"none"} ELSE IoEvents

\* The answers of the decoder that a call consumes: none when the call, tried
\* with any answer, does not get as far as decoding.
Decoded(probe, start) == IF probe.read THEN DecoderResults(start) ELSE {NoData}

RunCommand ==
    \E command \in Commands :
      \E io \in Answers(run_command(alive, rawFile, command, "prompt")) :
        \E dies \in Deaths(io) :
          LET c == Dispatched(Entry("run_command"), command, io,
                              run_command(alive, rawFile, command, io)) IN
          /\ pc = "idle"
          /\ last' = c
          /\ rawFile' = c.rawAfter
          /\ alive' = (alive /\ ~dies)
          /\ UNCHANGED <<offset, pc, remove_raw, stopped, stored, lastSet, sessions, pty>>
          /\ output' = AfterExchange(c, output)
          /\ session' = Kept(session, "run_command")

RunAll ==
    \E io \in Answers(run_command(alive, rawFile, RunAllCmd, "prompt")) :
      \E res \in Decoded(run_all(Entry("run_all"), alive, rawFile, offset, io, NoData),
                         offset) :
        \E dies \in Deaths(io) :
          LET c == run_all(Entry("run_all"), alive, rawFile, offset, io, res) IN
          /\ pc = "idle"
          /\ last' = c
          /\ rawFile' = c.rawAfter
          /\ offset' = c.offsetAfter
          /\ alive' = (alive /\ ~dies)
          /\ UNCHANGED <<pc, remove_raw, stopped, stored, lastSet, sessions, pty>>
          /\ output' = AfterExchange(c, output)
          /\ session' = Kept(session, "run_all")

RunAnalysis ==
    \E analysis \in AnalysisNames :
      \E io \in Answers(run_command(alive, rawFile, RunAnalysisCmd(analysis), "prompt")) :
        \E res \in Decoded(run_analysis(Entry("run_analysis"), alive, rawFile, offset,
                                        analysis, io, NoData), 0) :
          \E dies \in Deaths(io) :
            LET c == run_analysis(Entry("run_analysis"), alive, rawFile, offset, analysis,
                                  io, res) IN
            /\ pc = "idle"
            /\ last' = c
            /\ rawFile' = c.rawAfter
            /\ offset' = c.offsetAfter
            /\ alive' = (alive /\ ~dies)
            /\ UNCHANGED <<pc, remove_raw, stopped, stored, lastSet, sessions, pty>>
          /\ output' = AfterExchange(c, output)
            /\ session' = Kept(session, "run_analysis")

\* The one-shot path: it neither reads nor writes a session, so it is taken
\* from the states in which no call is on record yet.
Simulate ==
    \E log_path \in BOOLEAN, log_silent \in BOOLEAN, net \in FileStates,
       returncode \in {0, 1}, raw \in FileStates :
      \E res \in Decoded(simulate([Blank EXCEPT !.op = "simulate"], log_path, log_silent,
                                  net, returncode, raw, NoData), 0) :
        /\ pc = "idle"
        /\ last = Blank
        /\ last' = simulate([Blank EXCEPT !.op = "simulate"], log_path, log_silent, net,
                            returncode, raw, res)
        /\ UNCHANGED <<alive, rawFile, offset, pc, remove_raw, stopped, output, stored, lastSet, sessions, pty>>
        /\ session' = Kept(session, "simulate")

\* The answers of the spawned command that a start_session call consumes: none
\* when the call fails before it spawns anything.
Handshakes(probe) == IF probe.outcome = "return" THEN HandshakeEvents ELSE {"none"}

\* A call of start_session for a further session.
StartSession ==
    \E raw_path \in BOOLEAN, net \in FileStates :
      \E io \in Handshakes(start_session([Blank EXCEPT !.op = "start_session"], raw_path,
                                         net, "prompt")) :
        /\ pc = "idle"
        /\ last' = start_session([Blank EXCEPT !.op = "start_session"], raw_path, net, io)
        /\ UNCHANGED <<alive, rawFile, offset, pc, remove_raw, stopped, output, stored, lastSet, sessions, pty>>
        /\ session' = Kept(session, "start_session")

\* stop_session on a live process: send the quit command and block in wait().
StopSessionSend ==
    \E remove \in BOOLEAN :
        /\ pc = "idle"
        /\ alive
        /\ last' = stop_session_send(Entry("stop_session"))
        /\ pc' = "wait"
        /\ remove_raw' = remove
        /\ UNCHANGED <<alive, rawFile, offset, stopped, output, stored, lastSet, sessions, pty>>
        /\ session' = Kept(session, "stop_session")

\* wait() returns once the process has exited; stop_session runs to its end.
StopSessionReturn ==
    LET c == stop_session_finish(last, alive, rawFile, remove_raw) IN
    /\ pc = "wait"
    /\ ~alive
    /\ last' = c
    /\ rawFile' = c.rawAfter
    /\ alive' = FALSE
    /\ pc' = "idle"
    /\ stopped' = TRUE
    /\ UNCHANGED <<offset, remove_raw, output, stored, lastSet, sessions, pty>>
    /\ session' = Kept(session, "stop_session")

\* stop_session on a process that is already gone.
StopSessionDead ==
    \E remove \in BOOLEAN :
        LET c == stop_session_finish(Entry("stop_session"), FALSE, rawFile, remove) IN
        /\ pc = "idle"
        /\ ~alive
        /\ last' = c
        /\ rawFile' = c.rawAfter
        /\ stopped' = TRUE
        /\ UNCHANGED <<alive, offset, pc, remove_raw, output, stored, lastSet, sessions, pty>>
        /\ session' = Kept(session, "stop_session")

\* A listing accessor, on the transcript the simulator has ready.
ListAccessor ==
    \E acc \in ListingAccessors, a \in ArgNames, b \in ArgNames :
      \E io \in Answers(run_command(alive, rawFile, ListCmd(acc, a, b), "prompt")) :
        \E dies \in Deaths(io) :
          LET c == listing(Entry(acc), acc, a, b, alive, rawFile, io, output) IN
          /\ pc = "idle"
          /\ last' = c
          /\ rawFile' = c.rawAfter
          /\ alive' = (alive /\ ~dies)
          /\ output' = AfterExchange(c, output)
          /\ UNCHANGED <<offset, pc, remove_raw, stopped, stored, lastSet, sessions, pty>>
          /\ session' = Kept(session, acc)

GetParameter ==
    \E param \in ParamNames :
      \E io \in Answers(run_command(alive, rawFile, GetParameterCmd(param), "prompt")) :
        \E dies \in Deaths(io) :
          LET c == get_parameter(Entry("get_parameter"), param, alive, rawFile, io, output) IN
          /\ pc = "idle"
          /\ last' = c
          /\ rawFile' = c.rawAfter
          /\ alive' = (alive /\ ~dies)
          /\ output' = AfterExchange(c, output)
          /\ UNCHANGED <<offset, pc, remove_raw, stopped, stored, lastSet, sessions, pty>>
          /\ session' = Kept(session, "get_parameter")

\* The process exits on its own (a crash, or the quit command taking effect).
ProcessDies ==
    /\ alive
    /\ alive' = FALSE
    /\ UNCHANGED <<rawFile, offset, pc, remove_raw, stopped, last, output, stored, lastSet, sessions,
                 session, pty>>

\* The simulator creates its result file.
SimulatorWrites ==
    /\ alive
    /\ rawFile = "missing"
    /\ rawFile' = "readable"
    /\ UNCHANGED <<alive, offset, pc, remove_raw, stopped, last, output, stored, lastSet, sessions,
                 session, pty>>

\* The result file is deleted, or loses its read permission, outside the session.
ResultFileLost ==
    /\ rawFile = "readable"
    /\ rawFile' \in {"missing", "unreadable"}
    /\ UNCHANGED <<alive, offset, pc, remove_raw, stopped, last, output, stored, lastSet, sessions,
                 session, pty>>

Next ==
    \/ RunCommand
    \/ RunAll
    \/ RunAnalysis
    \/ Simulate
    \/ StartSession
    \/ StopSessionSend
    \/ StopSessionReturn
    \/ StopSessionDead
    \/ ProcessDies
    \/ SimulatorWrites
    \/ ResultFileLost
    \/ ListAccessor
    \/ GetParameter

Spec == Init /\ [][Next]_vars

\* The calling thread keeps running: a stop_session whose wait() can return
\* does return. Nothing obliges the simulator process to exit.
FairSpec == Spec /\ WF_vars(StopSessionReturn)

\* ---------------------------------------------------------------- reply decoding
\* A live session whose simulator has any transcript ready for the next command;
\* one accessor is applied to it.
DecodeInit ==
    /\ alive = TRUE
    /\ rawFile = "readable"
    /\ offset = 0
    /\ pc = "idle"
    /\ remove_raw = FALSE
    /\ stopped = FALSE
    /\ last = Blank
    /\ output \in Transcripts
    /\ stored = NothingStored
    /\ lastSet = NothingSet
    /\ sessions = TwoSessions
    /\ session = SessionFields
    /\ pty = QuietPty

\* One accessor is applied to each starting transcript.
DecodeNext ==
    /\ last = Blank
    /\ \/ ListAccessor
       \/ GetParameter

DecodeSpec == DecodeInit /\ [][DecodeNext]_vars

\* ---------------------------------------------------------------- round trip
RoundTripInit ==
    /\ alive = TRUE
    /\ rawFile = "readable"
    /\ offset = 0
    /\ pc = "idle"
    /\ remove_raw = FALSE
    /\ stopped = FALSE
    /\ last = Blank
    /\ output = EmptyTranscript
    /\ stored = NothingStored
    /\ lastSet = NothingSet
    /\ sessions = TwoSessions
    /\ session = SessionFields
    /\ pty = QuietPty

SetParameter ==
    \E param \in ParamNames, value \in Values :
      \E io \in Answers(run_command(alive, rawFile, SetParameterCmd(param, value), "prompt")) :
        \E dies \in Deaths(io) :
          LET c == set_parameter(Entry("set_parameter"), param, value, alive, rawFile, io) IN
          /\ pc = "idle"
          /\ last' = c
          /\ rawFile' = c.rawAfter
          /\ alive' = (alive /\ ~dies)
          /\ stored' = StubStore(stored, c)
          /\ lastSet' = IF c.outcome = "return" /\ c.ret = "True"
                        THEN [lastSet EXCEPT ![param] = [set |-> TRUE, value |-> value]]
                        ELSE lastSet
          /\ UNCHANGED <<offset, pc, remove_raw, stopped, output, sessions, pty>>
          /\ session' = Kept(session, "set_parameter")

EchoGetParameter ==
    \E param \in ParamNames :
      \E io \in Answers(run_command(alive, rawFile, GetParameterCmd(param), "prompt")) :
        \E dies \in Deaths(io) :
          LET c == get_parameter(Entry("get_parameter"), param, alive, rawFile, io,
                                 StubReply(stored, param)) IN
          /\ pc = "idle"
          /\ last' = c
          /\ rawFile' = c.rawAfter
          /\ alive' = (alive /\ ~dies)
          /\ UNCHANGED <<offset, pc, remove_raw, stopped, output, stored, lastSet, sessions, pty>>
          /\ session' = Kept(session, "get_parameter")

SetParameters ==
    \E params \in Mappings :
      \E answers \in AnswerRuns(Len(params)) :
        LET c     == set_parameters(Entry("set_parameters"), params, answers)
            tried == Len(c.sent)
            gone  == \E k \in 1..Len(params) :
                         k <= c.done + 1 /\ answers[k] = "exited"
        IN \E dies \in Deaths(c.io) :
          /\ pc = "idle"
          /\ last' = c
          /\ rawFile' = c.rawAfter
          /\ alive' = (alive /\ ~gone /\ ~dies)
          /\ stored' = StubStoreAll(stored, c.sent, c.done)
          /\ lastSet' = SetAll(lastSet, params, c.done)
          /\ session' = Kept(session, "set_parameters")
          /\ UNCHANGED <<offset, pc, remove_raw, stopped, output, sessions, pty>>

RoundTripNext ==
    \/ SetParameter
    \/ EchoGetParameter

RoundTripSpec == RoundTripInit /\ [][RoundTripNext]_vars

\* ---------------------------------------------------------------- set_parameters
\* One set_parameters call on a session in any state.
SetAllInit ==
    /\ alive \in BOOLEAN
    /\ rawFile \in FileStates
    /\ offset = 0
    /\ pc = "idle"
    /\ remove_raw = FALSE
    /\ stopped = FALSE
    /\ last = Blank
    /\ output = EmptyTranscript
    /\ stored = NothingStored
    /\ lastSet = NothingSet
    /\ sessions = TwoSessions
    /\ session = SessionFields
    /\ pty = QuietPty

SetAllNext ==
    /\ last = Blank
    /\ SetParameters

SetAllSpec == SetAllInit /\ [][SetAllNext]_vars

\* ---------------------------------------------------------------- concurrent sessions
\* Two sessions driven by two threads: the calls on one session are serial,
\* the calls on different sessions interleave in any order.
TwoSessionInit ==
    /\ alive = TRUE
    /\ rawFile = "readable"
    /\ offset = 0
    /\ pc = "idle"
    /\ remove_raw = FALSE
    /\ stopped = FALSE
    /\ last = Blank
    /\ output = EmptyTranscript
    /\ stored = NothingStored
    /\ lastSet = NothingSet
    /\ sessions = TwoSessions
    /\ session = SessionFields
    /\ pty = QuietPty

Untouched == UNCHANGED <<alive, rawFile, offset, pc, remove_raw, stopped, last, output,
                         stored, lastSet, session, pty>>

SessionRunCommand(i) ==
    LET s == sessions.real[i] IN
    \E command \in SessionCommands :
      \E io \in Answers(run_command(s.alive, s.rawFile, command, "prompt")) :
        \E dies \in Deaths(io) :
          /\ s.pc = "idle"
          /\ sessions' = Operated(i, after_run_command(s, command, io, dies),
                                  after_run_command(sessions.solo[i], command, io, dies))
          /\ Untouched

SessionRunAll(i) ==
    LET s == sessions.real[i] IN
    \E io \in Answers(run_command(s.alive, s.rawFile, RunAllCmd, "prompt")) :
      \E res \in OffsetResults(s.offset), dies \in Deaths(io) :
          /\ s.pc = "idle"
          /\ sessions' = Operated(i, after_run_all(s, io, res, dies),
                                  after_run_all(sessions.solo[i], io, res, dies))
          /\ Untouched

SessionRunAnalysis(i) ==
    LET s == sessions.real[i] IN
    \E analysis \in AnalysisNames :
      \E io \in Answers(run_command(s.alive, s.rawFile, RunAnalysisCmd(analysis), "prompt")) :
        \E res \in OffsetResults(0), dies \in Deaths(io) :
          /\ s.pc = "idle"
          /\ sessions' = Operated(i, after_run_analysis(s, analysis, io, res, dies),
                                  after_run_analysis(sessions.solo[i], analysis, io, res, dies))
          /\ Untouched

\* stop_session on a live process: the quit command is sent, the call waits.
SessionStopSend(i) ==
    LET s == sessions.real[i] IN
    \E remove \in BOOLEAN :
        /\ s.pc = "idle"
        /\ s.alive
        /\ sessions' = Operated(i, [s EXCEPT !.pc = "wait", !.remove_raw = remove],
                                [sessions.solo[i] EXCEPT !.pc = "wait", !.remove_raw = remove])
        /\ Untouched

SessionStopReturn(i) ==
    LET s == sessions.real[i] IN
    /\ s.pc = "wait"
    /\ ~s.alive
    /\ sessions' = Operated(i, after_stop_session(s, s.remove_raw),
                            after_stop_session(sessions.solo[i], sessions.solo[i].remove_raw))
    /\ Untouched

SessionStopDead(i) ==
    LET s == sessions.real[i] IN
    \E remove \in BOOLEAN :
        /\ s.pc = "idle"
        /\ ~s.alive
        /\ sessions' = Operated(i, after_stop_session(s, remove),
                                after_stop_session(sessions.solo[i], remove))
        /\ Untouched

SessionProcessDies(i) ==
    /\ sessions.real[i].alive
    /\ sessions' = Operated(i, [sessions.real[i] EXCEPT !.alive = FALSE],
                            [sessions.solo[i] EXCEPT !.alive = FALSE])
    /\ Untouched

TwoSessionNext ==
    \E i \in SessionIds :
        \/ SessionRunCommand(i)
        \/ SessionRunAll(i)
        \/ SessionRunAnalysis(i)
        \/ SessionStopSend(i)
        \/ SessionStopReturn(i)
        \/ SessionStopDead(i)
        \/ SessionProcessDies(i)

TwoSessionSpec == TwoSessionInit /\ [][TwoSessionNext]_vars

\* ---------------------------------------------------------------- request and reply
\* One live session whose simulator may answer late or print a prompt twice.
StreamInit ==
    /\ alive = TRUE
    /\ rawFile = "readable"
    /\ offset = 0
    /\ pc = "idle"
    /\ remove_raw = FALSE
    /\ stopped = FALSE
    /\ last = Blank
    /\ output = EmptyTranscript
    /\ stored = NothingStored
    /\ lastSet = NothingSet
    /\ sessions = TwoSessions
    /\ session = SessionFields
    /\ pty = QuietPty

\* run_command(session, command); session.repl.before, which the getters
\* decode, is the text up to the prompt this call matched.
StreamDispatch ==
    \E mode \in ReplyModes :
        /\ pty.sends < MaxSends
        /\ last' = over_pty(Entry("run_command"), pty, GetParameterCmd("vdd"), mode)
        /\ pty' = pty_after(pty, mode)
        /\ session' = Kept(session, "run_command")
        /\ UNCHANGED <<alive, rawFile, offset, pc, remove_raw, stopped, output, stored,
                       lastSet, sessions>>

\* A reply that missed its wait reaches the pseudo-terminal.
LateReplyArrives ==
    /\ pty.late # <<>>
    /\ pty' = [pty EXCEPT !.unread = Append(pty.unread, Head(pty.late)),
                          !.late = Tail(pty.late)]
    /\ UNCHANGED <<alive, rawFile, offset, pc, remove_raw, stopped, last, output, stored,
                   lastSet, sessions, session>>

StreamNext ==
    \/ StreamDispatch
    \/ LateReplyArrives

StreamSpec == StreamInit /\ [][StreamNext]_vars

\* ---------------------------------------------------------------- properties
\* The calls that dispatch a command through run_command.
DispatchOps == {"run_command", "run_all", "run_analysis"}

\* Parentheses properly balanced: no ")" without an earlier open "(", and no
\* "(" left open at the end.
RECURSIVE Nesting(_, _)
Nesting(command, depth) ==
    IF depth < 0 THEN -1
    ELSE IF command = <<>> THEN depth
    ELSE Nesting(Tail(command),
                 CASE Head(command) = "(" -> depth + 1
                   [] Head(command) = ")" -> depth - 1
                   [] OTHER -> depth)

Balanced(command) == Nesting(command, 0) = 0

\* The exception sendline or expect raises when the process answers io.
Raised(io) == IF sendline(io) # "none" THEN sendline(io) ELSE expect(io).raised

\* C1: every dispatch of a command whose parentheses are not properly
\* balanced fails with the validation error and touches nothing: liveness is
\* not queried, nothing is sent or awaited, and no file is deleted.
C1_UnbalancedNeverReachesProcess ==
    (last.op \in DispatchOps /\ ~Balanced(last.command)) =>
        /\ last.dispatch = "raise"
        /\ last.msg = "Syntax Error. Check Brackets in command"
        /\ ~last.aliveQueried
        /\ last.sent = <<>>
        /\ last.expects = 0
        /\ ~last.removed

\* C2: a balanced command dispatched while the process is not alive ends in
\* the fatal RuntimeError, returns no boolean, sends nothing, and leaves no
\* result file on disk.
C2_DeadDispatchIsFatal ==
    (last.op \in DispatchOps /\ Balanced(last.command) /\ ~last.aliveAtEntry) =>
        /\ last.dispatch = "raise"
        /\ last.exc = "RuntimeError"
        /\ last.msg = "The Spectre session is no longer active"
        /\ last.ret = "none"
        /\ last.sent = <<>>
        /\ last.rawAfter = "missing"
        /\ rawFile = "missing"

C2_Witness ==
    /\ last.op = "run_command"
    /\ Balanced(last.command)
    /\ last.command # <<>>
    /\ ~last.aliveAtEntry
    /\ last.rawAtEntry = "readable"

\* C3: once stop_session has returned or the process has died, the process
\* stays dead, no later call sends a command line, and every later dispatch
\* ends in a raised RuntimeError.
C3_AfterEnd ==
    (last.op \in DispatchOps \cup {"stop_session"}
        /\ (last.closedAtEntry \/ ~last.aliveAtEntry)) =>
        /\ last.sent = <<>>
        /\ last.op \in DispatchOps =>
              (last.outcome = "raise" /\ last.exc = "RuntimeError" /\ last.ret = "none")

C3_NoDispatchAfterEnd ==
    /\ [](C3_AfterEnd /\ (stopped => ~alive))
    /\ [][~alive => ~alive']_vars

C3_Witness ==
    /\ last.op = "run_all"
    /\ last.closedAtEntry
    /\ last.outcome = "raise"

\* C4: session.offset never decreases, whatever mapping the decoder returns.
C4_OffsetNeverDecreases == [][offset' >= offset]_vars

\* C5: a run_all that returns has sent the run-all command, has read the
\* result file at the offset the session held on entry, has stored the
\* decoder's 'offset' entry in session.offset, and returns the decoder's
\* mapping without that entry.
C5_RunAllStoresAndStrips ==
    (last.op = "run_all" /\ last.outcome = "return") =>
        /\ last.sent = <<RunAllCmd>>
        /\ last.read
        /\ last.readOffset = last.offsetAtEntry
        /\ "offset" \in DOMAIN last.decoded => offset = last.decoded["offset"]
        /\ DOMAIN last.data = DOMAIN last.decoded \ {"offset"}
        /\ \A k \in DOMAIN last.data : last.data[k] = last.decoded[k]

C5_Witness ==
    /\ last.op = "run_all"
    /\ last.outcome = "return"
    /\ DOMAIN last.decoded = {"dc", "tran", "offset"}
    /\ last.offsetAtEntry = 1
    /\ last.decoded["offset"] = 2
    /\ offset = 2
    /\ DOMAIN last.data = {"dc", "tran"}

\* C6: no mapping returned by run_all, run_analysis or simulate holds the
\* reserved key 'offset'.
C6_OffsetKeyNeverReturned ==
    (last.op \in {"run_all", "run_analysis", "simulate"} /\ last.outcome = "return") =>
        "offset" \notin DOMAIN last.data

\* C7: session.offset changes only in a run_all whose dispatch returned True;
\* a call whose dispatch returned False or raised leaves it as it was.
C7_OffsetOnlyAfterDispatch ==
    [][offset' # offset => (last'.op = "run_all" /\ last'.dispatch = "True")]_vars

C7_Witness ==
    /\ last.op = "run_all"
    /\ last.dispatch = "raise"
    /\ last.sent # <<>>
    /\ last.offsetAtEntry > 0
    /\ offset = last.offsetAtEntry

\* C8: run_analysis reads the result file from byte 0 whatever the session
\* offset is, and leaves session.offset as it found it.
C8_RunAnalysisReadsFromStart ==
    last.op = "run_analysis" =>
        /\ offset = last.offsetAtEntry
        /\ last.read => last.readOffset = 0

C8_Witness ==
    /\ last.op = "run_analysis"
    /\ last.outcome = "return"
    /\ last.read
    /\ last.offsetAtEntry > 0

\* C9: a command sent to a live process whose wait ends without the prompt
\* (stream closed, timeout) makes run_command warn and return False, not raise.
C9_NoPromptWarnsAndReturnsFalse ==
    (last.op \in DispatchOps /\ last.sent # <<>> /\ last.io \in {"eof", "timeout"}) =>
        /\ last.dispatch = "False"
        /\ last.warned = "Spectre might have crashed"

C11_StopSessionReturns == (pc = "wait") ~> (pc = "idle" /\ stopped /\ ~alive)

\* C12: start_session returns a Session only after the prompt was matched;
\* when the handshake times out or the stream closes first it raises IOError
\* and returns no Session.
C12_HandshakeOrIOError ==
    last.op = "start_session" =>
        /\ last.outcome = "return" => (last.spawned /\ last.io = "prompt")
        /\ (last.spawned /\ last.io \in {"eof", "timeout"}) =>
              (last.outcome = "raise" /\ last.exc = "IOError" /\ last.ret = "none")

\* C13: every run_command call on a live session ends, in a returned boolean
\* or a raised error, also when the simulator never prints the prompt: the
\* wait then ends with pexpect's TIMEOUT.
C13_DispatchTerminates ==
    (last.op \in DispatchOps /\ last.aliveAtEntry) =>
        /\ last.dispatch \in {"True", "False", "raise"}
        /\ last.io = "timeout" => (last.dispatch = "raise" /\ last.cause = "TIMEOUT")

C13_Witness ==
    /\ last.op = "run_command"
    /\ last.aliveAtEntry
    /\ last.sent # <<>>
    /\ last.io = "timeout"

\* C14: a balanced command on a live session whose process answers with the
\* prompt is sent once, awaited once and yields True; on no outcome is a
\* command sent or awaited a second time.
C14_OneCyclePerDispatch ==
    last.op \in DispatchOps =>
        /\ Len(last.sent) <= 1
        /\ last.expects <= 1
        /\ (Balanced(last.command) /\ last.aliveAtEntry /\ last.io = "prompt") =>
              /\ last.sent = <<last.command>>
              /\ last.expects = 1
              /\ last.dispatch = "True"

C14_Witness ==
    /\ last.op = "run_command"
    /\ Balanced(last.command)
    /\ last.command # <<>>
    /\ last.aliveAtEntry
    /\ last.io = "prompt"
    /\ last.ret = "True"

\* The (name, value) pairs of the two-element quoted groups among items.
RECURSIVE QuotedPairs(_)
QuotedPairs(items) ==
    IF items = <<>> THEN <<>>
    ELSE (IF Head(items).kind = "group" /\ Head(items).quoted
          THEN <<Pair(Head(items).name, Head(items).value)>> ELSE <<>>)
         \o QuotedPairs(Tail(items))

\* C15: every listing accessor that returns, returns the two-element quoted
\* groups of the transcript as (name, value) pairs, one per group, in the
\* order emitted; any number of leading header lines may be left out.
C15_ListingReturnsQuotedPairs ==
    (last.op \in ListingAccessors /\ last.outcome = "return") =>
        \E k \in 0..Len(last.before) :
            last.result = QuotedPairs(join(drop(last.before, k)))

\* The attribute listing of scenario E and the pairs expected from it.
ScenarioLine == <<Group("value", "3.3", TRUE), Group("tolerance", "", TRUE)>>

ScenarioPairs == <<Pair("value", "3.3"), Pair("tolerance", "")>>

\* C16 as stated: get_circuit_parameter, given the transcript that is the
\* single line ("value" "3.3") ("tolerance" "") with no header line before
\* it, returns [("value","3.3"), ("tolerance","")].
C16_SingleLineAttributes ==
    (last.op = "get_circuit_parameter" /\ last.outcome = "return"
        /\ last.before = <<ScenarioLine>>) =>
        last.result = ScenarioPairs

\* C16 amended: get_circuit_parameter leaves out the first line of the
\* transcript; given a first line followed by the line
\* ("value" "3.3") ("tolerance" "") it returns [("value","3.3"),
\* ("tolerance","")] in that order, and given a single line it returns [].
C16_AttributesAfterFirstLine ==
    (last.op = "get_circuit_parameter" /\ last.outcome = "return") =>
        /\ (Len(last.before) = 1 => last.result = <<>>)
        /\ (Len(last.before) = 2 /\ last.before[2] = ScenarioLine) =>
               last.result = ScenarioPairs

C16_Witness ==
    /\ last.op = "get_circuit_parameter"
    /\ last.outcome = "return"
    /\ Len(last.before) = 2
    /\ last.before[2] = ScenarioLine
    /\ last.result = ScenarioPairs

NoQuotedPairGroups(lines) ==
    \A n \in 1..Len(lines) : \A m \in 1..Len(lines[n]) :
        ~(lines[n][m].kind = "group" /\ lines[n][m].quoted)

\* C17: a listing accessor called on a live session whose process answers
\* with the prompt after a transcript with zero quoted-pair groups returns
\* the empty sequence and raises nothing.
C17_NoGroupsGivesEmpty ==
    (last.op \in ListingAccessors /\ last.aliveAtEntry
        /\ last.io \in {"prompt", "none"} /\ NoQuotedPairGroups(last.offered)) =>
        /\ last.outcome = "return"
        /\ last.result = <<>>

\* The last non-empty line of a transcript, <<>> when every line is empty.
RECURSIVE LastNonEmpty(_)
LastNonEmpty(lines) ==
    IF lines = <<>> THEN <<>>
    ELSE IF lines[Len(lines)] # <<>> THEN lines[Len(lines)]
    ELSE LastNonEmpty(SubSeq(lines, 1, Len(lines) - 1))

\* C18: get_parameter, after a dispatch that succeeded, returns the number
\* parsed from the last non-empty line of the transcript, also when blank
\* lines follow the value line.
C18_LastNonEmptyLineParsed ==
    (last.op = "get_parameter" /\ last.dispatch = "True"
        /\ float(LastNonEmpty(last.before)).exc = "none") =>
        /\ last.outcome = "return"
        /\ last.value = float(LastNonEmpty(last.before)).value

\* C19: against the storing process, a get_parameter whose dispatch succeeds
\* returns the value of the last set_parameter on the same name that returned
\* True, whatever was set or read under other names in between.
C19_SetThenGetReturnsValue ==
    (last.op = "get_parameter" /\ last.dispatch = "True" /\ lastSet[last.param].set) =>
        /\ last.outcome = "return"
        /\ last.value = lastSet[last.param].value

C19_Witness ==
    /\ last.op = "get_parameter"
    /\ last.outcome = "return"
    /\ lastSet[last.param].set
    /\ lastSet[last.param].value = 33
    /\ last.value = 33
    /\ \E p \in ParamNames : p # last.param /\ lastSet[p].set /\ lastSet[p].value # 33

\* C20: when run_all or run_analysis, after a dispatch that succeeded, finds
\* the result file missing or unreadable, it raises the resource error for
\* that state (missing file, permission denied), not the dispatcher's
\* RuntimeError, and leaves session.offset as it was.
C20_UnreadableResultIsResourceError ==
    (last.op \in {"run_all", "run_analysis"} /\ last.dispatch = "True"
        /\ last.rawAfter # "readable") =>
        /\ last.outcome = "raise"
        /\ last.exc = (IF isfile(last.rawAfter) THEN "PermissionError"
                       ELSE "FileNotFoundError")
        /\ last.exc # "RuntimeError"
        /\ ~last.read
        /\ last.offsetAfter = last.offsetAtEntry
        /\ offset = last.offsetAtEntry

C20_Witness ==
    /\ last.op = "run_all"
    /\ last.dispatch = "True"
    /\ last.rawAfter = "unreadable"
    /\ last.exc = "PermissionError"
    /\ last.offsetAtEntry > 0
    /\ offset = last.offsetAtEntry

C22_OnlyOffsetReassigned == (offset = 0 /\ session = SessionFields) /\ [][session' = session]_vars

C22_Witness ==
    /\ last.op = "run_all"
    /\ last.outcome = "return"
    /\ offset > 0
    /\ session = SessionFields
    /\ pty = QuietPty

\* C23 as stated: in every state between a successful start_session and the
\* invocation of stop_session the process handle is non-null and the process
\* is alive.
C23_AliveUntilStop ==
    (pc = "idle" /\ ~stopped) => (session.repl # "None" /\ alive)

\* C23 amended: the handle is non-null in every state; the process may exit
\* on its own before stop_session is invoked, and then every dispatch of a
\* command that passes validation finds it gone and raises the fatal error.
C23_HandleKeptExitDetected ==
    /\ session.repl # "None"
    /\ (last.op \in DispatchOps /\ ~last.closedAtEntry /\ ~last.aliveAtEntry
            /\ count(last.command, "(") = count(last.command, ")")) =>
           /\ last.dispatch = "raise"
           /\ last.msg = "The Spectre session is no longer active"
           /\ last.sent = <<>>

C23_Witness ==
    /\ last.op = "run_all"
    /\ ~last.closedAtEntry
    /\ ~last.aliveAtEntry
    /\ last.msg = "The Spectre session is no longer active"
    /\ ~stopped
    /\ pc = "idle"
    /\ session.repl = "spawn"

\* C24: when the simulator run by simulate exits with a non-zero code, the
\* log is printed if a log path was given, and IOError is raised otherwise.
C24_NonZeroExitSurfaced ==
    (last.op = "simulate" /\ last.net = "readable" /\ last.returncode # 0) =>
        IF last.log_path THEN last.printed
        ELSE last.outcome = "raise" /\ last.exc = "IOError"

\* C25: the prompt that completes a dispatch, and with it the transcript a
\* getter decodes, answers that dispatch's own command, also when the
\* simulator answered an earlier command late or printed a prompt twice.
C25_ReplyAnswersOwnCommand ==
    (last.op = "run_command" /\ last.sentId > 0 /\ last.outcome = "return") =>
        last.matchedId = last.sentId

\* C26: the command an accessor builds from names without parentheses passes
\* the parenthesis validation of run_command, so on a live session it is sent
\* to the process. (The accessors of this run are the listing accessors,
\* list_analysis_types among them, and get_parameter.)
C26_GeneratedCommandsReachProcess ==
    (last.op \in ListingAccessors \cup {"get_parameter"} /\ last.aliveAtEntry) =>
        /\ count(last.command, "(") = count(last.command, ")")
        /\ last.sent = <<last.command>>

\* C27: a command with unbalanced parentheses dispatched on a session whose
\* process is dead raises the validation error, not the fatal 'no longer
\* active' error, and leaves the result file as it was.
C27_ValidationBeforeLiveness ==
    (last.op \in DispatchOps /\ ~Balanced(last.command) /\ ~last.aliveAtEntry) =>
        /\ last.dispatch = "raise"
        /\ last.msg = "Syntax Error. Check Brackets in command"
        /\ ~last.removed
        /\ last.rawAfter = last.rawAtEntry

\* The commands set_parameter builds for the first n items of params, in order.
SetCommands(params, n) == [k \in 1..n |-> SetParameterCmd(params[k][1], params[k][2])]

\* C28: set_parameters dispatches the items in mapping order; it returns True
\* exactly when every item was dispatched and returned True, which for the
\* empty mapping means nothing is sent; the first dispatch that does not
\* return True ends the call, so no later item reaches the process.
C28_SetParametersAllInOrder ==
    last.op = "set_parameters" =>
        /\ last.done <= Len(last.params)
        /\ Len(last.sent) \in {last.done, last.done + 1}
        /\ Len(last.sent) <= Len(last.params)
        /\ last.sent = SetCommands(last.params, Len(last.sent))
        /\ (last.outcome = "return" /\ last.ret = "True") <=>
               (last.done = Len(last.params))
        /\ (last.outcome = "return" /\ last.ret = "True") => Len(last.sent) = Len(last.params)
        /\ last.params = <<>> => (last.ret = "True" /\ last.sent = <<>>)

C28_Witness ==
    /\ last.op = "set_parameters"
    /\ Len(last.params) = 2
    /\ last.outcome = "return"
    /\ last.ret = "True"
    /\ last.sent = SetCommands(last.params, 2)

\* C29: stop_session returns True exactly when the process is not alive at
\* its return; called on a process that is already dead, also a second time
\* after a first stop, it sends no quit command, warns of nothing, kills
\* nothing and returns True.
C29_StopIsIdempotent ==
    (last.op = "stop_session" /\ last.outcome = "return") =>
        /\ (last.ret = "True") <=> ~alive
        /\ ~last.aliveAtEntry =>
               /\ last.sent = <<>>
               /\ last.warned = "none"
               /\ ~last.killed
               /\ last.ret = "True"

C29_Witness ==
    /\ last.op = "stop_session"
    /\ last.outcome = "return"
    /\ last.closedAtEntry
    /\ ~last.aliveAtEntry
    /\ last.sent = <<>>
    /\ last.ret = "True"

\* C30: stop_session deletes the result file only when remove_raw is True,
\* and a result file that is there when an operation is attempted on the
\* closed session is still there afterwards.
C30_KeptFileStaysAfterStop ==
    /\ (last.op = "stop_session" /\ last.outcome = "return" /\ ~last.remove) =>
           (~last.removed /\ last.rawAfter = last.rawAtEntry)
    /\ (last.op \in DispatchOps \cup ListingAccessors \cup {"get_parameter"}
            /\ last.closedAtEntry /\ isfile(last.rawAtEntry)) =>
           (~last.removed /\ isfile(last.rawAfter))

\* C31: a start_session that fails its netlist check (file missing or
\* unreadable) raises the resource error before anything is spawned and leaves
\* nothing behind: no temporary result file, no log FIFO, no drain process.
C31_FailedStartLeavesNothing ==
    (last.op = "start_session" /\ last.net # "readable") =>
        /\ last.outcome = "raise"
        /\ last.exc = (IF isfile(last.net) THEN "PermissionError" ELSE "FileNotFoundError")
        /\ ~last.spawned
        /\ ~last.tmpRaw
        /\ ~last.fifo
        /\ ~last.drain

====
